---- MODULE Spec2Model ----
(***************************************************************************)
(* Keyed-sequence reconciliation of floem's DynStack                       *)
(* (src/src/views/dyn_stack.rs): the pure function diff, the applier       *)
(* apply_diff, and the reactive effect of dyn_stack that feeds diffs to    *)
(* DynStack::update through the deferred update channel.                   *)
(*                                                                         *)
(* Conventions.  Rust indices are 0-based and kept 0-based here; a TLA+    *)
(* sequence s is read at code index i as s[i + 1].  Option<T> is a         *)
(* sequence of length at most one: None is << >>, Some(v) is <<v>>.        *)
(***************************************************************************)
EXTENDS Integers, Sequences, FiniteSets, TLC

VARIABLES
    prev_hash_run,  \* the effect's retained value: Option<HashRun<FxIndexSet<K>>>
    queue,          \* diffs handed to id.update_state and not yet given to update
    children,       \* DynStack.children : Vec<Option<(V, Scope)>>
    next_scope,     \* number of scopes created so far (the next fresh Scope)
    evals,          \* number of runs of the effect so far
    released,       \* history: every Scope disposed so far, in order
    generations,    \* history: the key sequence each queued diff leads to
    materialized,   \* history: the key sequence of the last diff applied
    last_pass,      \* history: what the last apply pass did, and the longest
                    \* queue any apply pass has found
    first_run,      \* history: the keys of the two answers of each_fn in the
                    \* first run of the effect
    h_from,         \* diff harness: the argument from
    h_to,           \* diff harness: the argument to
    h_phase,        \* diff harness: "input" | "diffed" | "applied" | "faulted" |
                    \* "slots" | "off"
    h_diff,         \* diff harness: Option of the value diff returned
    h_pass,         \* diff harness: the apply pass on the slot array
    h_trace,        \* diff harness: the last operation on the slot array and
                    \* the state after each of its steps
    list            \* the List of views/list.rs and its pending updates

vars == <<prev_hash_run, queue, children, next_scope, evals, released,
          generations, materialized, last_pass, first_run,
          h_from, h_to, h_phase, h_diff, h_pass, h_trace, list>>

stack_vars == <<prev_hash_run, queue, children, next_scope, evals, released,
                generations, materialized, last_pass, first_run>>

harness_vars == <<h_from, h_to, h_phase, h_diff, h_pass, h_trace>>

----------------------------------------------------------------------------
(* Bounds of the model *)

\* longest key sequence of one generation
MaxLen == 3

\* number of runs of the effect in one behaviour
MaxEvals == 3

\* largest number of items a List is built from
MaxItems == 4

\* number of pending List updates beyond which no further event is taken
MaxPending == 2

\* keys of the diff harness, and of the generations the effect evaluates
Keys == {"A", "B", "C", "D"}

StackKeys == {"A", "B", "C"}

----------------------------------------------------------------------------
(* Option, usize and FxIndexSet *)

None == << >>

Some(v) == <<v>>

is_some(o) == Len(o) = 1

unwrap(o) == o[1]

\* usize arithmetic is modulo 2^64, which TLC's 32-bit integers cannot hold.
\* A usize v is held as the integer of least absolute value congruent to v
\* modulo 2^64: v itself below 2^63, and v - 2^64 from there on, so that
\* usize::MAX - k is held as -(k + 1).  In this form a.wrapping_sub(b) and
\* a.wrapping_add(b) are the difference and the sum, and 0.wrapping_sub(1) is
\* -1, which is usize::MAX.
wrapping_sub(a, b) == a - b

wrapping_add(a, b) == a + b

\* a < b on usize: the values held as negative integers are the largest
usize_lt(a, b) == IF (a < 0) = (b < 0) THEN a < b ELSE b < 0

Range(s) == {s[i] : i \in 1..Len(s)}

IsUnique(s) == \A i, j \in 1..Len(s) : s[i] = s[j] => i = j

\* duplicate-free key sequences of length at most n over the set S
UniqueSeqs(S, n) ==
    UNION {{s \in [1..m -> S] : IsUnique(s)} : m \in 0..n}

\* collect::<FxIndexSet<_>>(): insertion order, a repeated key is dropped
RECURSIVE collect_index_set(_)
collect_index_set(s) ==
    IF s = << >> THEN << >>
    ELSE LET init == collect_index_set(SubSeq(s, 1, Len(s) - 1))
             k == s[Len(s)]
         IN  IF k \in Range(init) THEN init ELSE Append(init, k)

\* IndexSet::get_full(k), reduced to the index: Option<usize>
get_full(set, k) ==
    IF k \in Range(set)
    THEN Some((CHOOSE i \in 1..Len(set) : set[i] = k) - 1)
    ELSE None

\* IndexSet::difference: the keys of a that are not in b, in the order of a
difference(a, b) == SelectSeq(a, LAMBDA k : k \notin Range(b))

\* Iterator::next on a sequence of which pos elements are consumed
iter_next(s, pos) == IF pos < Len(s) THEN Some(s[pos + 1]) ELSE None

iter_advance(s, pos) == IF pos < Len(s) THEN pos + 1 ELSE pos

----------------------------------------------------------------------------
(* Diff and diff *)

DiffDefault == [removed |-> << >>, moved |-> << >>, added |-> << >>, clear |-> FALSE]

is_empty(d) ==
    d.removed = << >> /\ d.moved = << >> /\ d.added = << >> /\ ~d.clear

DiffOpRemove(at) == [at |-> at]

DiffOpMove_swapped(from_idx, to_idx) == [from |-> to_idx, to |-> from_idx]

DiffOpMove(from_idx, to_idx) == [from |-> from_idx, to |-> to_idx]

DiffOpAdd(at, view) == [at |-> at, view |-> view]

diff_early_no_clear(from, to) ==
    IF from = << >> /\ to = << >> THEN Some(DiffDefault) ELSE None

\* the early returns of diff
diff_early(from, to) ==
    IF from = << >> /\ to = << >> THEN Some(DiffDefault)
    ELSE IF to = << >> THEN Some([DiffDefault EXCEPT !.clear = TRUE])
    ELSE None

removed_cmds(from, to) ==
    LET removed == difference(from, to)
    IN  [i \in 1..Len(removed) |-> DiffOpRemove(unwrap(get_full(from, removed[i])))]

added_cmds(from, to) ==
    LET added == difference(to, from)
    IN  [i \in 1..Len(added) |-> DiffOpAdd(unwrap(get_full(to, added[i])), None)]

\* the indices the two cursors of the move loop run over
removed_indices(from, to) ==
    LET removed == difference(from, to)
    IN  [i \in 1..Len(removed) |-> unwrap(get_full(from, removed[i]))]

added_indices(from, to) ==
    LET added == difference(to, from)
    IN  [i \in 1..Len(added) |-> unwrap(get_full(to, added[i]))]

\* the state of the move loop before its first iteration
move_loop_init(from, to) ==
    [normalized_idx |-> 0,
     move_cmds      |-> << >>,
     added_idx      |-> iter_next(added_indices(from, to), 0),
     added_pos      |-> iter_advance(added_indices(from, to), 0),
     removed_idx    |-> iter_next(removed_indices(from, to), 0),
     removed_pos    |-> iter_advance(removed_indices(from, to), 0)]

\* the insertion cursor at loop index idx
added_step(from, to, st, idx) ==
    IF st.added_idx = Some(idx)
    THEN LET next_added == iter_next(added_indices(from, to), st.added_pos)
             pos == iter_advance(added_indices(from, to), st.added_pos)
         IN  IF is_some(next_added)
             THEN [st EXCEPT !.added_idx = next_added,
                             !.added_pos = pos,
                             !.normalized_idx = wrapping_sub(st.normalized_idx, 1)]
             ELSE [st EXCEPT !.added_pos = pos]
    ELSE st

\* the removal cursor at loop index idx
removed_step(from, to, st, idx) ==
    IF st.removed_idx = Some(idx)
    THEN LET next_removed == iter_next(removed_indices(from, to), st.removed_pos)
             pos == iter_advance(removed_indices(from, to), st.removed_pos)
             st1 == [st EXCEPT !.normalized_idx = wrapping_add(st.normalized_idx, 1),
                               !.removed_pos = pos]
         IN  IF is_some(next_removed)
             THEN [st1 EXCEPT !.removed_idx = next_removed]
             ELSE st1
    ELSE st

move_needed_normalized_only(from_idx, normalized_idx, idx) ==
    from_idx # normalized_idx

\* the condition under which a surviving key gets a move-operation
move_needed(from_idx, normalized_idx, idx) ==
    from_idx # normalized_idx \/ from_idx # idx

\* the move-operation of the key at loop index idx, if any
move_step(from, to, st, idx) ==
    LET found == get_full(from, to[idx + 1])
    IN  IF is_some(found) /\ move_needed(unwrap(found), st.normalized_idx, idx)
        THEN [st EXCEPT !.move_cmds = Append(@, DiffOpMove(unwrap(found), idx))]
        ELSE st

move_loop_body_no_increment(from, to, st, idx) ==
    move_step(from, to, removed_step(from, to, added_step(from, to, st, idx), idx), idx)

\* one iteration of `for (idx, k) in to.iter().enumerate()`
move_loop_body(from, to, st, idx) ==
    LET s1 == added_step(from, to, st, idx)
        s2 == removed_step(from, to, s1, idx)
        s3 == move_step(from, to, s2, idx)
    IN  [s3 EXCEPT !.normalized_idx = wrapping_add(s3.normalized_idx, 1)]

\* the state of the loop after the iterations 0 .. n - 1
RECURSIVE move_loop(_, _, _)
move_loop(from, to, n) ==
    IF n = 0 THEN move_loop_init(from, to)
    ELSE move_loop_body(from, to, move_loop(from, to, n - 1), n - 1)

collapse_never(from, to, diffs) == FALSE

collapse_to_clear_empty_from(from, to, diffs) ==
    /\ to # << >>
    /\ Len(diffs.removed) = Len(from)
    /\ diffs.moved = << >>

\* the condition under which the clear flag is set after the loop
collapse_to_clear(from, to, diffs) ==
    /\ from # << >>
    /\ to # << >>
    /\ Len(diffs.removed) = Len(from)
    /\ diffs.moved = << >>

diff_no_early_return(from, to) ==
    LET diffs == [removed |-> removed_cmds(from, to),
                  moved   |-> move_loop(from, to, Len(to)).move_cmds,
                  added   |-> added_cmds(from, to),
                  clear   |-> FALSE]
    IN  IF collapse_to_clear(from, to, diffs)
        THEN [diffs EXCEPT !.clear = TRUE]
        ELSE diffs

\* diff(from, to)
diff(from, to) ==
    IF is_some(diff_early(from, to))
    THEN unwrap(diff_early(from, to))
    ELSE diff_no_early_return(from, to)

----------------------------------------------------------------------------
(* remove_index and apply_diff *)

\* as_child_of_current_scope(view_fn)(item): the child built from item, owning
\* the fresh Scope scope
view_fn(item, scope) == [key |-> item.key, gen |-> item.gen, scope |-> scope]

\* the state an apply pass works on: the slot array, the staged moves, and a
\* record of the disposals, constructions, overwritten children and panics
apply_state(slots, scope0) ==
    [children      |-> slots,
     items_to_move |-> << >>,
     disposed      |-> << >>,
     built         |-> << >>,
     leaked        |-> << >>,
     next_scope    |-> scope0,
     panic         |-> FALSE]

in_bounds(slots, index) == index >= 0 /\ index < Len(slots)

remove_index_no_dispose(st, index) ==
    IF st.panic THEN st
    ELSE IF ~in_bounds(st.children, index) THEN [st EXCEPT !.panic = TRUE]
    ELSE [st EXCEPT !.children[index + 1] = None]

remove_index_unwrap(st, index) ==
    IF st.panic THEN st
    ELSE IF ~in_bounds(st.children, index) THEN [st EXCEPT !.panic = TRUE]
    ELSE IF st.children[index + 1] = None THEN [st EXCEPT !.panic = TRUE]
    ELSE [st EXCEPT !.children[index + 1] = None,
                    !.disposed = Append(@, unwrap(st.children[index + 1]).scope)]

\* remove_index: take the slot; an empty slot returns early; otherwise the
\* view is removed and its scope disposed
remove_index(st, index) ==
    IF st.panic THEN st
    ELSE IF ~in_bounds(st.children, index) THEN [st EXCEPT !.panic = TRUE]
    ELSE IF st.children[index + 1] = None THEN st
    ELSE [st EXCEPT !.children[index + 1] = None,
                    !.disposed = Append(@, unwrap(st.children[index + 1]).scope)]

resize_never(st, d) == st

resize_by_added(st, d) ==
    [st EXCEPT !.children = st.children \o [i \in 1..Len(d.added) |-> None]]

\* "Resize children if needed": only when added.len() >= removed.len()
resize_children(st, d) ==
    IF Len(d.added) >= Len(d.removed)
    THEN [st EXCEPT !.children =
            st.children \o [i \in 1..(Len(d.added) - Len(d.removed)) |-> None]]
    ELSE st

\* `for i in 0..children.len() { remove_index(.., i) }`, the first n iterations
RECURSIVE clear_loop(_, _)
clear_loop(st, n) ==
    IF n = 0 THEN st ELSE remove_index(clear_loop(st, n - 1), n - 1)

\* `if diff.clear { .. }`
clear_pass(st, d) ==
    IF d.clear THEN clear_loop(st, Len(st.children)) ELSE st

\* the removals left for the removal pass: `diff.removed.clear()` under clear
removed_after_clear(d) == IF d.clear THEN << >> ELSE d.removed

\* `for DiffOpRemove { at } in diff.removed`, the first n iterations
RECURSIVE remove_loop(_, _, _)
remove_loop(st, removed, n) ==
    IF n = 0 THEN st
    ELSE remove_index(remove_loop(st, removed, n - 1), removed[n].at)

remove_pass(st, d) ==
    remove_loop(st, removed_after_clear(d), Len(removed_after_clear(d)))

take_move_write_through(st, mv) ==
    IF st.panic THEN st
    ELSE IF ~in_bounds(st.children, mv.from) \/ ~in_bounds(st.children, mv.to)
         THEN [st EXCEPT !.panic = TRUE]
    ELSE IF st.children[mv.from + 1] = None THEN [st EXCEPT !.panic = TRUE]
    ELSE [st EXCEPT !.children =
            [[st.children EXCEPT ![mv.from + 1] = None]
                EXCEPT ![mv.to + 1] = st.children[mv.from + 1]]]

\* `let item = children[from].take().unwrap(); items_to_move.push((to, item))`
take_move(st, mv) ==
    IF st.panic THEN st
    ELSE IF ~in_bounds(st.children, mv.from) THEN [st EXCEPT !.panic = TRUE]
    ELSE IF st.children[mv.from + 1] = None THEN [st EXCEPT !.panic = TRUE]
    ELSE [st EXCEPT !.children[mv.from + 1] = None,
                    !.items_to_move =
                        Append(@, [to |-> mv.to, item |-> unwrap(st.children[mv.from + 1])])]

RECURSIVE take_loop(_, _, _)
take_loop(st, moved, n) ==
    IF n = 0 THEN st ELSE take_move(take_loop(st, moved, n - 1), moved[n])

take_pass(st, d) == take_loop(st, d.moved, Len(d.moved))

\* the children a write at index at would drop without disposing them
overwritten(st, at) ==
    IF st.children[at + 1] = None THEN << >>
    ELSE <<unwrap(st.children[at + 1]).scope>>

\* `children[at] = view.map(view_fn)` for the n-th insertion (0-based); the
\* construction function panics at the positions in faults
insert_add(st, add, n, faults) ==
    IF st.panic THEN st
    ELSE IF add.view = None
         THEN IF ~in_bounds(st.children, add.at) THEN [st EXCEPT !.panic = TRUE]
              ELSE [st EXCEPT !.children[add.at + 1] = None,
                              !.leaked = @ \o overwritten(st, add.at)]
    ELSE IF n \in faults THEN [st EXCEPT !.panic = TRUE]
    ELSE LET child == view_fn(unwrap(add.view), st.next_scope)
             st1 == [st EXCEPT !.built = Append(@, child),
                               !.next_scope = @ + 1]
         IN  IF ~in_bounds(st.children, add.at) THEN [st1 EXCEPT !.panic = TRUE]
             ELSE [st1 EXCEPT !.children[add.at + 1] = Some(child),
                              !.leaked = @ \o overwritten(st, add.at)]

RECURSIVE add_loop(_, _, _, _)
add_loop(st, added, n, faults) ==
    IF n = 0 THEN st
    ELSE insert_add(add_loop(st, added, n - 1, faults), added[n], n - 1, faults)

add_pass(st, d, faults) == add_loop(st, d.added, Len(d.added), faults)

\* `children[to] = Some(each_item)`
write_move(st, held) ==
    IF st.panic THEN st
    ELSE IF ~in_bounds(st.children, held.to) THEN [st EXCEPT !.panic = TRUE]
    ELSE [st EXCEPT !.children[held.to + 1] = Some(held.item),
                    !.leaked = @ \o overwritten(st, held.to)]

RECURSIVE write_loop(_, _)
write_loop(st, n) ==
    IF n = 0 THEN st
    ELSE LET prev == write_loop(st, n - 1)
         IN  write_move(prev, st.items_to_move[n])

write_pass(st) == write_loop(st, Len(st.items_to_move))

\* `children.retain(|c| c.is_some())`
retain_some(st) ==
    IF st.panic THEN st
    ELSE [st EXCEPT !.children = SelectSeq(@, LAMBDA c : c # None)]

\* apply_diff: the state after each step of the pass, in the order of the code
after_resize(slots, scope0, d) == resize_children(apply_state(slots, scope0), d)

after_clear(slots, scope0, d) == clear_pass(after_resize(slots, scope0, d), d)

after_removes(slots, scope0, d) == remove_pass(after_clear(slots, scope0, d), d)

after_takes(slots, scope0, d) == take_pass(after_removes(slots, scope0, d), d)

after_adds(slots, scope0, d, faults) ==
    add_pass(after_takes(slots, scope0, d), d, faults)

after_writes(slots, scope0, d, faults) ==
    write_pass(after_adds(slots, scope0, d, faults))

apply_diff(slots, scope0, d, faults) ==
    retain_some(after_writes(slots, scope0, d, faults))

----------------------------------------------------------------------------
(* The effect of dyn_stack and DynStack::update *)

\* the item of key k as the n-th evaluation of each_fn yields it
Item(k, n) == [key |-> k, gen |-> n]

\* each_fn() at the n-th evaluation, for the key sequence keys
each_fn(keys, n) == [i \in 1..Len(keys) |-> Item(keys[i], n)]

key_fn(item) == item.key

\* items.iter().map(&key_fn).collect::<FxIndexSet<_>>()
hashed_items(items) ==
    collect_index_set([i \in 1..Len(items) |-> key_fn(items[i])])

\* `added.view = Some(items[added.at].take().unwrap())` for every insertion;
\* the target indices of a diff are distinct positions of items
rehydrate(cmds, items) ==
    [cmds EXCEPT !.added =
        [i \in 1..Len(cmds.added) |->
            DiffOpAdd(cmds.added[i].at, Some(items[cmds.added[i].at + 1]))]]

first_diff_unhydrated(items) ==
    [DiffDefault EXCEPT !.added =
        [i \in 1..Len(items) |-> DiffOpAdd(i - 1, None)]]

\* the diff of the first evaluation: every item added at its position; the
\* items are those of a second call of each_fn()
first_diff(again) ==
    [DiffDefault EXCEPT !.added =
        [i \in 1..Len(again) |-> DiffOpAdd(i - 1, Some(again[i]))]]

effect_diff_always_first(prev, items, again) == first_diff(items)

\* the diff one run of the effect publishes, prev being the retained value,
\* items the answer of each_fn() and again the answer of the second call,
\* which only the first run makes
effect_diff(prev, items, again) ==
    IF is_some(prev)
    THEN rehydrate(diff(unwrap(prev), hashed_items(items)), items)
    ELSE first_diff(again)

effect_result_stale(prev, items) ==
    IF is_some(prev) THEN prev ELSE Some(hashed_items(items))

\* the value one run of the effect returns, retained for the next run
effect_result(prev, items) == Some(hashed_items(items))

\* id.update_state(diff): the diff joins the update channel behind the diffs
\* already in flight
update_state(q, d) == Append(q, d)

\* the diff the next call of DynStack::update receives: the oldest in flight
next_update(q) == Head(q)

----------------------------------------------------------------------------
(* List (views/list.rs): selection by click and by keyboard *)

\* the List that list() returns for length items: no selection, and the
\* SelectionChanged of the first run of the effect that tracks the selection.
\* overflow_checks is the build's setting, which decides what `length - 1`
\* does when length is 0; by_holder records a set through List::selection()
ListNew(length, overflow_checks) ==
    [length          |-> length,
     overflow_checks |-> overflow_checks,
     selection       |-> None,
     pending         |-> <<"SelectionChanged">>,
     underflow       |-> FALSE,
     overflow_panic  |-> FALSE,
     scrolled        |-> None,
     scroll_panic    |-> FALSE,
     by_holder       |-> FALSE]

\* what a handler did: the selection it leaves, whether it called
\* selection.set, whether it sent ScrollToSelected, whether it evaluated
\* `length - 1` with length = 0, and whether that panicked
Handled(selection, set, scroll, underflow, panic) ==
    [selection |-> selection, set |-> set, scroll |-> scroll,
     underflow |-> underflow, panic |-> panic]

Ignored(l) == Handled(l.selection, FALSE, FALSE, FALSE, FALSE)

\* the on_click_stop handler of the Item with the given index
on_click(l, index) ==
    IF l.selection # Some(index)
    THEN Handled(Some(index), TRUE, FALSE, FALSE, FALSE)
    ELSE Ignored(l)

\* KeyDown of NamedKey::Home
key_home(l) ==
    IF l.length > 0 THEN Handled(Some(0), TRUE, TRUE, FALSE, FALSE) ELSE Ignored(l)

\* KeyDown of NamedKey::End
key_end(l) ==
    IF l.length > 0
    THEN Handled(Some(l.length - 1), TRUE, TRUE, FALSE, FALSE)
    ELSE Ignored(l)

\* KeyDown of NamedKey::ArrowUp
key_arrow_up(l) ==
    IF is_some(l.selection)
    THEN IF usize_lt(0, unwrap(l.selection))
         THEN Handled(Some(unwrap(l.selection) - 1), TRUE, TRUE, FALSE, FALSE)
         ELSE Ignored(l)
    ELSE IF l.length > 0
         THEN Handled(Some(l.length - 1), TRUE, TRUE, FALSE, FALSE)
         ELSE Ignored(l)

key_arrow_down_past_end(l) ==
    IF is_some(l.selection)
    THEN IF unwrap(l.selection) < l.length
         THEN Handled(Some(unwrap(l.selection) + 1), TRUE, TRUE, FALSE, FALSE)
         ELSE Ignored(l)
    ELSE IF l.length > 0
         THEN Handled(Some(0), TRUE, TRUE, FALSE, FALSE)
         ELSE Ignored(l)

\* KeyDown of NamedKey::ArrowDown; `length - 1` is evaluated whenever there is
\* a selection, and with length = 0 it overflows: a build with overflow
\* checks panics there, before anything is set or sent, and a build without
\* them goes on with usize::MAX
key_arrow_down(l) ==
    IF is_some(l.selection)
    THEN IF l.length = 0 /\ l.overflow_checks
         THEN Handled(l.selection, FALSE, FALSE, TRUE, TRUE)
         ELSE IF usize_lt(unwrap(l.selection), wrapping_sub(l.length, 1))
              THEN Handled(Some(unwrap(l.selection) + 1), TRUE, TRUE, l.length = 0, FALSE)
              ELSE Handled(l.selection, FALSE, FALSE, l.length = 0, FALSE)
    ELSE IF l.length > 0
         THEN Handled(Some(0), TRUE, TRUE, FALSE, FALSE)
         ELSE Ignored(l)

\* selection.set(v) by a holder of the signal that List::selection() returns
selection_set(l, v) == Handled(v, TRUE, FALSE, FALSE, FALSE)

\* the List after a handler: selection.set re-runs the effect, which sends
\* SelectionChanged, and the handler then sends ScrollToSelected
handled(l, h) ==
    [l EXCEPT !.selection = h.selection,
              !.pending = @ \o (IF h.set THEN <<"SelectionChanged">> ELSE << >>)
                            \o (IF h.scroll THEN <<"ScrollToSelected">> ELSE << >>),
              !.underflow = @ \/ h.underflow,
              !.overflow_panic = @ \/ h.panic]

\* List::update on the oldest pending ListUpdate
list_update(l) ==
    LET rest == [l EXCEPT !.pending = Tail(@)]
    IN  IF Head(l.pending) = "ScrollToSelected" /\ is_some(l.selection)
        THEN IF usize_lt(unwrap(l.selection), l.length)
             THEN [rest EXCEPT !.scrolled = l.selection]
             ELSE [rest EXCEPT !.scroll_panic = TRUE]
        ELSE rest

ListOff == list = ListNew(0, FALSE)

\* the generations each_fn may yield
Generations == UniqueSeqs(StackKeys, MaxLen)

NoPass ==
    [ran      |-> FALSE,
     from_gen |-> << >>,
     to_gen   |-> << >>,
     before   |-> << >>,
     diff     |-> DiffDefault,
     backlog  |-> 0,
     result   |-> apply_state(<< >>, 0)]

StackInit ==
    /\ prev_hash_run = None
    /\ queue = << >>
    /\ children = << >>
    /\ next_scope = 0
    /\ evals = 0
    /\ released = << >>
    /\ generations = << >>
    /\ materialized = << >>
    /\ last_pass = NoPass
    /\ first_run = [items |-> << >>, again |-> << >>]

\* the state after each step of apply_diff on a slot array, as the pass went
apply_trace(op, index, slots, scope0, d, faults) ==
    [op      |-> op,
     index   |-> index,
     before  |-> apply_state(slots, scope0),
     resized |-> after_resize(slots, scope0, d),
     cleared |-> after_clear(slots, scope0, d),
     removed |-> after_removes(slots, scope0, d),
     taken   |-> after_takes(slots, scope0, d),
     added   |-> after_adds(slots, scope0, d, faults),
     written |-> after_writes(slots, scope0, d, faults)]

\* a single operation (remove_index, or the clear loop) on the state st
step_trace(op, index, st) ==
    [op      |-> op,
     index   |-> index,
     before  |-> st,
     resized |-> st,
     cleared |-> st,
     removed |-> st,
     taken   |-> st,
     added   |-> st,
     written |-> st]

NoTrace == step_trace("none", -1, apply_state(<< >>, 0))

HarnessOff ==
    /\ h_from = << >>
    /\ h_to = << >>
    /\ h_phase = "off"
    /\ h_diff = None
    /\ h_pass = apply_state(<< >>, 0)
    /\ h_trace = NoTrace

\* the state when dyn_stack returns: create_effect has run the effect once,
\* each_fn() having answered keys and then, at its second call, again
Constructed(keys, again) ==
    LET items == each_fn(keys, 1)
    IN  /\ queue = update_state(<< >>, effect_diff(None, items, each_fn(again, 1)))
        /\ prev_hash_run = effect_result(None, items)
        /\ generations = <<hashed_items(items)>>
        /\ evals = 1
        /\ children = << >>
        /\ next_scope = 0
        /\ released = << >>
        /\ materialized = << >>
        /\ last_pass = NoPass
        /\ first_run = [items |-> keys, again |-> again]

\* what the second call of each_fn() may answer when the first answered
\* keys: the same, or the collection with its first item gone, or reversed
Reevaluations(keys) ==
    {keys,
     SubSeq(keys, 2, Len(keys)),
     [i \in 1..Len(keys) |-> keys[Len(keys) + 1 - i]]}

Init ==
    /\ \E keys \in Generations :
        \E again \in Reevaluations(keys) : Constructed(keys, again)
    /\ HarnessOff
    /\ ListOff

\* a later run of the effect: the compute pass.  prev_hash_run is Some, and
\* each_fn() is called once
Compute ==
    /\ evals < MaxEvals
    /\ ~last_pass.result.panic
    /\ \E keys \in Generations :
        LET items == each_fn(keys, evals + 1)
        IN  /\ queue' = update_state(queue, effect_diff(prev_hash_run, items, items))
            /\ prev_hash_run' = effect_result(prev_hash_run, items)
            /\ generations' = Append(generations, hashed_items(items))
    /\ evals' = evals + 1
    /\ UNCHANGED <<children, next_scope, released, materialized, last_pass, first_run>>
    /\ UNCHANGED harness_vars
    /\ UNCHANGED list

\* DynStack::update on the oldest queued diff: the apply pass
Update ==
    /\ queue # << >>
    /\ ~last_pass.result.panic
    /\ LET res == apply_diff(children, next_scope, next_update(queue), {})
       IN  /\ children' = res.children
           /\ next_scope' = res.next_scope
           /\ released' = released \o res.disposed
           /\ last_pass' = [ran      |-> TRUE,
                            from_gen |-> materialized,
                            to_gen   |-> Head(generations),
                            before   |-> children,
                            diff     |-> next_update(queue),
                            backlog  |-> IF Len(queue) > last_pass.backlog
                                         THEN Len(queue) ELSE last_pass.backlog,
                            result   |-> res]
    /\ queue' = Tail(queue)
    /\ materialized' = Head(generations)
    /\ generations' = Tail(generations)
    /\ UNCHANGED <<prev_hash_run, evals, first_run>>
    /\ UNCHANGED harness_vars
    /\ UNCHANGED list

Next == Compute \/ Update

Spec == Init /\ [][Next]_vars

----------------------------------------------------------------------------
(* diff and apply_diff on every pair of duplicate-free key sequences *)

\* a slot array arranged per the key sequence keys: slot i holds the child of
\* keys[i], built at evaluation 0 with scope i
arranged(keys) ==
    [i \in 1..Len(keys) |-> Some(view_fn(Item(keys[i], 0), i - 1))]

\* the keys of the children of a slot array, an empty slot reading "-"
slot_keys(slots) ==
    [i \in 1..Len(slots) |-> IF slots[i] = None THEN "-" ELSE unwrap(slots[i]).key]

DiffInit ==
    /\ StackInit
    /\ h_from \in UniqueSeqs(Keys, MaxLen)
    /\ h_to \in UniqueSeqs(Keys, MaxLen)
    /\ h_phase = "input"
    /\ h_diff = None
    /\ h_pass = apply_state(arranged(h_from), Len(h_from))
    /\ h_trace = NoTrace
    /\ ListOff

RunDiff ==
    /\ h_phase = "input"
    /\ h_diff' = Some(diff(h_from, h_to))
    /\ h_phase' = "diffed"
    /\ UNCHANGED <<h_from, h_to, h_pass, h_trace>>
    /\ UNCHANGED stack_vars
    /\ UNCHANGED list

\* the diff the effect publishes for h_to: diff's value, rehydrated
Rehydrated == rehydrate(unwrap(h_diff), each_fn(h_to, 1))

RunApply ==
    /\ h_phase = "diffed"
    /\ h_pass' = apply_diff(h_pass.children, h_pass.next_scope,
                            rehydrate(unwrap(h_diff), each_fn(h_to, 1)), {})
    /\ h_trace' = apply_trace("apply", -1, h_pass.children, h_pass.next_scope,
                              Rehydrated, {})
    /\ h_phase' = "applied"
    /\ UNCHANGED <<h_from, h_to, h_diff>>
    /\ UNCHANGED stack_vars
    /\ UNCHANGED list

\* apply_diff when the construction function panics at the n-th insertion:
\* the pass stops there, and h_pass is the state the panic leaves
RunApplyFaulting ==
    /\ h_phase = "diffed"
    /\ \E n \in 0..(Len(unwrap(h_diff).added) - 1) :
        /\ h_pass' = apply_diff(h_pass.children, h_pass.next_scope, Rehydrated, {n})
        /\ h_trace' = apply_trace("fault", n, h_pass.children, h_pass.next_scope,
                                  Rehydrated, {n})
    /\ h_phase' = "faulted"
    /\ UNCHANGED <<h_from, h_to, h_diff>>
    /\ UNCHANGED stack_vars
    /\ UNCHANGED list

DiffNext == RunDiff \/ RunApply \/ RunApplyFaulting

DiffSpec == DiffInit /\ [][DiffNext]_vars

----------------------------------------------------------------------------
(* Properties of diff followed by apply_diff (DiffSpec) *)

Diffed == h_phase \in {"diffed", "applied"}

TheDiff == unwrap(h_diff)

\* the child a slot array arranged per h_to holds at slot i: the child that
\* h_from's slot array held for the key when the key survives, and otherwise
\* a child built from the item of h_to
IsChildOf(slot, i) ==
    /\ slot # None
    /\ IF h_to[i] \in Range(h_from)
       THEN slot = arranged(h_from)[unwrap(get_full(h_from, h_to[i])) + 1]
       ELSE /\ unwrap(slot).key = h_to[i]
            /\ unwrap(slot).gen = 1

\* C1: applying diff(from, to), rehydrated with the items of to, to a slot
\* array arranged per from leaves a slot array of length to.len() whose i-th
\* slot holds the child of to[i], with no empty slot (and without a panic).
C1_ApplyYieldsTo ==
    h_phase = "applied" =>
        /\ ~h_pass.panic
        /\ Len(h_pass.children) = Len(h_to)
        /\ \A i \in 1..Len(h_to) : IsChildOf(h_pass.children[i], i)
        /\ \A i \in 1..Len(h_pass.children) : h_pass.children[i] # None

C1_Witness ==
    /\ h_phase = "applied"
    /\ TheDiff.removed # << >>
    /\ TheDiff.moved # << >>
    /\ TheDiff.added # << >>
    /\ Len(h_to) = 3
    /\ slot_keys(h_pass.children) = h_to

\* C5: diff(to, to) is the empty diff: no removals, no moves, no insertions
\* and the clear flag false.
C5_SelfDiffEmpty ==
    (Diffed /\ h_from = h_to) =>
        /\ TheDiff.removed = << >>
        /\ TheDiff.moved = << >>
        /\ TheDiff.added = << >>
        /\ TheDiff.clear = FALSE
        /\ is_empty(TheDiff)

C5_Witness ==
    /\ h_phase = "diffed"
    /\ h_from = h_to
    /\ Len(h_to) = 3
    /\ is_empty(TheDiff)

\* C6: for a non-empty from, diff(from, []) has the clear flag set and empty
\* removed, moved and added lists.
C6_DiffToEmptyIsClear ==
    (Diffed /\ h_from # << >> /\ h_to = << >>) =>
        TheDiff = [removed |-> << >>, moved |-> << >>, added |-> << >>, clear |-> TRUE]

C6_Witness ==
    /\ h_phase = "diffed"
    /\ Len(h_from) = 3
    /\ h_to = << >>
    /\ TheDiff.clear

\* C7: for a non-empty to, diff([], to) has one insertion per element of to
\* with the target indices 0, 1, .., to.len()-1 in ascending order, no
\* removals, no moves and the clear flag false.
C7_DiffFromEmptyIsAllAdded ==
    (Diffed /\ h_from = << >> /\ h_to # << >>) =>
        /\ Len(TheDiff.added) = Len(h_to)
        /\ \A i \in 1..Len(h_to) : TheDiff.added[i].at = i - 1
        /\ TheDiff.removed = << >>
        /\ TheDiff.moved = << >>
        /\ TheDiff.clear = FALSE

C7_Witness ==
    /\ h_phase = "diffed"
    /\ h_from = << >>
    /\ Len(h_to) = 3
    /\ Len(TheDiff.added) = 3

\* the case of C8: every key of a non-empty from is removed and no move is
\* produced
AllRemovedNoMoves ==
    /\ Diffed
    /\ h_from # << >>
    /\ Range(h_from) \cap Range(h_to) = {}
    /\ TheDiff.moved = << >>

\* C8 as stated: when diff removes every key of a non-empty from and produces
\* no moves, the clear flag is true and the removed list is empty.
C8_CollapseEmptiesRemoved ==
    AllRemovedNoMoves => (TheDiff.clear /\ TheDiff.removed = << >>)

\* C8 amended: in that case the clear flag is true; the removed list is empty
\* when to is empty and otherwise still carries the from.len() removals
\* 0, 1, .., from.len()-1 (apply_diff drops them in its clear pass, which
\* disposes every child of from exactly once).
C8_CollapseSetsClear ==
    AllRemovedNoMoves =>
        /\ TheDiff.clear
        /\ h_to = << >> => TheDiff.removed = << >>
        /\ h_to # << >> =>
            TheDiff.removed = [i \in 1..Len(h_from) |-> [at |-> i - 1]]
        /\ h_phase = "applied" =>
            h_pass.disposed = [i \in 1..Len(h_from) |-> i - 1]

C8_Witness ==
    /\ AllRemovedNoMoves
    /\ h_phase = "applied"
    /\ Len(h_from) = 2
    /\ Len(h_to) = 2
    /\ TheDiff.clear
    /\ Len(TheDiff.removed) = 2

\* s rotated left by r places
RotateLeft(s, r) == [i \in 1..Len(s) |-> s[((i - 1 + r) % Len(s)) + 1]]

\* C9 as stated: diff([A,B,C], [B,C,A]) has exactly one move (0 -> 2), no
\* insertions and no removals, and a rotation moves only the rotated element.
C9_RotationMovesOne ==
    (Diffed /\ Len(h_from) >= 2 /\ h_to = RotateLeft(h_from, 1)) =>
        /\ TheDiff.moved = <<[from |-> 0, to |-> Len(h_from) - 1]>>
        /\ TheDiff.added = << >>
        /\ TheDiff.removed = << >>

\* C9 amended: diff([A,B,C], [B,C,A]) has the three moves 1 -> 0, 2 -> 1 and
\* 0 -> 2, no insertions, no removals and the clear flag false; more
\* generally a rotation by r places (0 < r < n) of n keys has one move for
\* every key, idx + r mod n -> idx, in the order of the target indices.
C9_RotationMovesAll ==
    /\ (Diffed /\ h_from = <<"A", "B", "C">> /\ h_to = <<"B", "C", "A">>) =>
        /\ TheDiff.moved = <<[from |-> 1, to |-> 0], [from |-> 2, to |-> 1], [from |-> 0, to |-> 2]>>
        /\ TheDiff.added = << >>
        /\ TheDiff.removed = << >>
        /\ TheDiff.clear = FALSE
    /\ \A r \in 1..(Len(h_from) - 1) :
        (Diffed /\ h_to = RotateLeft(h_from, r)) =>
            /\ TheDiff.moved =
                [i \in 1..Len(h_from) |->
                    [from |-> (i - 1 + r) % Len(h_from), to |-> i - 1]]
            /\ TheDiff.added = << >>
            /\ TheDiff.removed = << >>
            /\ TheDiff.clear = FALSE

C9_Witness ==
    /\ h_phase = "diffed"
    /\ h_from = <<"A", "B", "C">>
    /\ h_to = <<"B", "C", "A">>
    /\ Len(TheDiff.moved) = 3

\* C10 as stated: diff([A,B,C], [A,C]) has exactly one removal, at old index
\* 1, an empty moved list, an empty added list and the clear flag false.
C10_RemovalWithoutMove ==
    (Diffed /\ h_from = <<"A", "B", "C">> /\ h_to = <<"A", "C">>) =>
        /\ TheDiff.removed = <<[at |-> 1]>>
        /\ TheDiff.moved = << >>
        /\ TheDiff.added = << >>
        /\ TheDiff.clear = FALSE

\* C10 amended: diff([A,B,C], [A,C]) has exactly one removal, at old index 1,
\* exactly one move (C, 2 -> 1), an empty added list and the clear flag false.
C10_RemovalShiftsFollower ==
    (Diffed /\ h_from = <<"A", "B", "C">> /\ h_to = <<"A", "C">>) =>
        /\ TheDiff.removed = <<[at |-> 1]>>
        /\ TheDiff.moved = <<[from |-> 2, to |-> 1]>>
        /\ TheDiff.added = << >>
        /\ TheDiff.clear = FALSE

C10_Witness ==
    /\ h_phase = "applied"
    /\ h_from = <<"A", "B", "C">>
    /\ h_to = <<"A", "C">>
    /\ TheDiff.moved = <<[from |-> 2, to |-> 1]>>
    /\ slot_keys(h_pass.children) = <<"A", "C">>

----------------------------------------------------------------------------
(* Properties of the effect and the apply passes (Spec) *)

\* the scopes of the children a slot array holds
slot_scopes(slots) ==
    {unwrap(slots[i]).scope : i \in {j \in 1..Len(slots) : slots[j] # None}}

\* the key sequence of the most recently computed generation
LatestGeneration == IF is_some(prev_hash_run) THEN unwrap(prev_hash_run) ELSE << >>

NoHoles(slots) == \A i \in 1..Len(slots) : slots[i] # None

\* every evaluation of the collection gave one generation: the second call of
\* each_fn() in the first run answered as the first call did
OneGenerationPerRun == first_run.items = first_run.again

\* C2: under every interleaving of compute passes (each diffing against the
\* key set the previous compute pass retained) with apply passes that take
\* the queued diffs in FIFO order, whenever the queue is empty the children
\* of the slot array are exactly those of the most recently computed
\* generation, in its order, with no holes.
C2_DrainedQueueMatchesLatest ==
    (OneGenerationPerRun /\ queue = << >>) =>
        /\ NoHoles(children)
        /\ slot_keys(children) = LatestGeneration
        /\ ~last_pass.result.panic

C2_Witness ==
    /\ OneGenerationPerRun
    /\ queue = << >>
    /\ evals = 3
    /\ last_pass.backlog >= 2
    /\ last_pass.diff.moved # << >>
    /\ last_pass.diff.added # << >>
    /\ slot_keys(children) = LatestGeneration

\* C3: over any sequence of apply passes no scope is released twice, no child
\* in the slot array has its scope released, every child that left the slot
\* array has its scope released (exactly once), and an apply pass releases
\* the scopes of exactly the children whose keys are not in the new
\* generation, leaving the surviving children (same child, same scope) in the
\* slot array.
C3_ReleasedExactlyOnceWhenRemoved ==
    OneGenerationPerRun =>
        /\ IsUnique(released)
        /\ slot_scopes(children) \cap Range(released) = {}
        /\ slot_scopes(children) \cup Range(released) = 0..(next_scope - 1)
        /\ last_pass.ran =>
            \A i \in 1..Len(last_pass.before) :
                LET child == unwrap(last_pass.before[i])
                IN  IF child.key \in Range(last_pass.to_gen)
                    THEN /\ child.scope \notin Range(last_pass.result.disposed)
                         /\ \E j \in 1..Len(last_pass.result.children) :
                                last_pass.result.children[j] = Some(child)
                    ELSE Len(SelectSeq(last_pass.result.disposed,
                                       LAMBDA sc : sc = child.scope)) = 1

C3_Witness ==
    /\ OneGenerationPerRun
    /\ last_pass.ran
    /\ ~last_pass.diff.clear
    /\ last_pass.diff.removed # << >>
    /\ last_pass.diff.moved # << >>
    /\ Len(last_pass.result.disposed) = 1
    /\ Len(released) >= 2
    /\ Len(children) >= 2

\* the keys of the children the last apply pass constructed, in order
BuiltKeys == [i \in 1..Len(last_pass.result.built) |-> last_pass.result.built[i].key]

\* C4: the construction function is invoked only for insertions: an apply
\* pass calls it exactly once for each key of the new generation that is
\* absent from the previous generation and never for a key present in both,
\* whose child is the one the slot array already held.
C4_ConstructOnlyForNewKeys ==
    (OneGenerationPerRun /\ last_pass.ran) =>
        /\ BuiltKeys = difference(last_pass.to_gen, last_pass.from_gen)
        /\ next_scope = last_pass.result.next_scope
        /\ \A i \in 1..Len(last_pass.before) :
            unwrap(last_pass.before[i]).key \in Range(last_pass.to_gen) =>
                \E j \in 1..Len(children) : children[j] = last_pass.before[i]

C4_Witness ==
    /\ OneGenerationPerRun
    /\ last_pass.ran
    /\ Range(last_pass.from_gen) \cap Range(last_pass.to_gen) # {}
    /\ Len(BuiltKeys) = 1
    /\ Len(last_pass.to_gen) = 3
    /\ last_pass.diff.moved # << >>

\* the number of apply passes so far
Passes == evals - Len(queue)

\* C11: on the first evaluation of the effect (no previous key set retained)
\* the published diff has one insertion per item of the collection (as the
\* effect's second call of each_fn() yields it), at the indices 0..n-1 in
\* collection order, each carrying its item, with no removals, no moves and
\* the clear flag false; applying it to the empty slot array yields the
\* children of the collection in order.
C11_FirstEvaluationAddsAll ==
    /\ (Passes = 0 /\ queue # << >>) =>
        /\ Len(queue[1].added) = Len(first_run.again)
        /\ \A i \in 1..Len(first_run.again) :
            /\ queue[1].added[i].at = i - 1
            /\ queue[1].added[i].view = <<[key |-> first_run.again[i], gen |-> 1]>>
        /\ queue[1].removed = << >>
        /\ queue[1].moved = << >>
        /\ queue[1].clear = FALSE
    /\ Passes = 1 =>
        /\ last_pass.before = << >>
        /\ Len(children) = Len(first_run.again)
        /\ \A i \in 1..Len(first_run.again) :
            children[i] = <<[key |-> first_run.again[i], gen |-> 1, scope |-> i - 1]>>

C11_Witness ==
    /\ Passes = 1
    /\ last_pass.ran
    /\ Len(last_pass.diff.added) = 3
    /\ slot_keys(children) = first_run.again
    /\ Len(children) = 3

----------------------------------------------------------------------------
(* Properties of the steps of apply_diff (DiffSpec) *)

\* the child the slot array arranged per h_from holds at code index i
OldChild(i) == unwrap(arranged(h_from)[i + 1])

\* the scopes of the children of h_from whose keys are not in h_to, in order
RemovedScopes ==
    LET idx == SelectSeq([i \in 1..Len(h_from) |-> i - 1],
                         LAMBDA i : h_from[i + 1] \notin Range(h_to))
    IN  [i \in 1..Len(idx) |-> OldChild(idx[i]).scope]

\* C12 as stated: when the construction function faults during an insertion,
\* every removal and every move of the diff is already committed (each
\* removed child disposed, each moved child sitting in its target slot) and
\* no later insertion has been attempted.
C12_FaultAfterMovesCommitted ==
    h_phase = "faulted" =>
        /\ Range(h_pass.disposed) = Range(RemovedScopes)
        /\ \A i \in 1..Len(TheDiff.moved) :
            /\ TheDiff.moved[i].to < Len(h_pass.children)
            /\ h_pass.children[TheDiff.moved[i].to + 1]
                    = <<OldChild(TheDiff.moved[i].from)>>
        /\ Len(h_pass.built) = h_trace.index

\* C12 amended: at the moment of the fault every removal of the diff is
\* committed (each removed child disposed, once) and every moved child has
\* been taken out of its source slot into the holding list, but none has
\* been written to its target slot: the moved children are not in the slot
\* array.  The insertions before the faulting one are in place, no later
\* insertion has been attempted, and the array is not compacted.
C12_FaultAfterMovesStaged ==
    h_phase = "faulted" =>
        /\ h_pass.panic
        /\ h_pass.disposed = RemovedScopes
        /\ Len(h_pass.items_to_move) = Len(TheDiff.moved)
        /\ \A i \in 1..Len(TheDiff.moved) :
            /\ h_pass.items_to_move[i] =
                [to |-> TheDiff.moved[i].to, item |-> OldChild(TheDiff.moved[i].from)]
            /\ \A j \in 1..Len(h_pass.children) :
                h_pass.children[j] # <<OldChild(TheDiff.moved[i].from)>>
        /\ Len(h_pass.built) = h_trace.index
        /\ \A i \in 1..Len(TheDiff.added) :
            IF i <= h_trace.index
            THEN h_pass.children[TheDiff.added[i].at + 1] = <<h_pass.built[i]>>
            ELSE h_pass.children[TheDiff.added[i].at + 1] = << >>
        /\ Len(h_pass.children) = Len(h_trace.resized.children)

C12_Witness ==
    /\ h_phase = "faulted"
    /\ h_trace.index = 1
    /\ TheDiff.moved # << >>
    /\ TheDiff.removed # << >>
    /\ ~TheDiff.clear
    /\ Len(h_pass.built) = 1
    /\ Len(h_pass.items_to_move) >= 1

----------------------------------------------------------------------------
(* remove_index and the clear loop on slot arrays with empty slots *)

\* the slot array arranged per keys with the slots in holes emptied, as
\* remove_index meets it within a pass (after the resize, after earlier
\* removals)
with_holes(keys, holes) ==
    [i \in 1..Len(keys) |-> IF i \in holes THEN None ELSE arranged(keys)[i]]

SlotsInit ==
    /\ StackInit
    /\ ListOff
    /\ h_from \in UniqueSeqs(Keys, MaxLen)
    /\ h_to = << >>
    /\ h_phase = "slots"
    /\ h_diff = None
    /\ \E holes \in SUBSET (1..Len(h_from)) :
        h_pass = apply_state(with_holes(h_from, holes), Len(h_from))
    /\ h_trace = NoTrace

\* remove_index(app_state, children, index) for an index of the array
RemoveIndex ==
    /\ h_phase = "slots"
    /\ \E index \in 0..(Len(h_pass.children) - 1) :
        /\ h_pass' = remove_index(h_pass, index)
        /\ h_trace' = step_trace("remove", index, h_pass)
    /\ UNCHANGED <<h_from, h_to, h_phase, h_diff>>
    /\ UNCHANGED stack_vars
    /\ UNCHANGED list

\* the clear loop of apply_diff: remove_index for every index of the array
ClearAll ==
    /\ h_phase = "slots"
    /\ h_pass' = clear_loop(h_pass, Len(h_pass.children))
    /\ h_trace' = step_trace("clear", -1, h_pass)
    /\ UNCHANGED <<h_from, h_to, h_phase, h_diff>>
    /\ UNCHANGED stack_vars
    /\ UNCHANGED list

SlotsNext == RemoveIndex \/ ClearAll

SlotsSpec == SlotsInit /\ [][SlotsNext]_vars

\* the scopes of the children of a slot array, in slot order
occupied_scopes(slots) ==
    LET occ == SelectSeq(slots, LAMBDA c : c # << >>)
    IN  [i \in 1..Len(occ) |-> occ[i][1].scope]

\* C13: removing a slot that is already empty is a silent no-op: the slot
\* array is unchanged, no scope is released and nothing panics; so removing
\* the same index twice, or clearing an array that has empty slots, disposes
\* each child at most once.
C13_RemoveEmptyIsNoOp ==
    /\ ~h_pass.panic
    /\ IsUnique(h_pass.disposed)
    /\ (h_trace.op = "remove" /\ h_trace.before.children[h_trace.index + 1] = << >>) =>
        /\ h_pass.children = h_trace.before.children
        /\ h_pass.disposed = h_trace.before.disposed
    /\ (h_trace.op = "remove" /\ h_trace.before.children[h_trace.index + 1] # << >>) =>
        /\ h_pass.children[h_trace.index + 1] = << >>
        /\ h_pass.disposed = Append(h_trace.before.disposed,
                                    h_trace.before.children[h_trace.index + 1][1].scope)
    /\ h_trace.op = "clear" =>
        /\ \A i \in 1..Len(h_pass.children) : h_pass.children[i] = << >>
        /\ Len(h_pass.children) = Len(h_trace.before.children)
        /\ h_pass.disposed =
            h_trace.before.disposed \o occupied_scopes(h_trace.before.children)

\* a second removal of an index whose child an earlier removal disposed
C13_Witness ==
    /\ h_phase = "slots"
    /\ h_trace.op = "remove"
    /\ h_trace.before.children[h_trace.index + 1] = << >>
    /\ \E i \in 1..Len(h_pass.disposed) : h_pass.disposed[i] = h_trace.index
    /\ h_pass = h_trace.before

----------------------------------------------------------------------------
(* Order, sizes and index safety of the steps of apply_diff (DiffSpec) *)

Applied == h_phase = "applied"

\* the slot array holds the child c
Holds(slots, c) == \E j \in 1..Len(slots) : slots[j] = <<c>>

\* C14 as stated: every moved child has been written into its target slot
\* after the removal pass and before the first insertion constructs a child.
C14_MovesWrittenBeforeInsertions ==
    Applied =>
        /\ h_trace.taken.built = << >>
        /\ \A i \in 1..Len(TheDiff.moved) :
            h_trace.taken.children[TheDiff.moved[i].to + 1]
                = <<OldChild(TheDiff.moved[i].from)>>

\* C14 amended: the steps of one apply pass are, in this order, the clear,
\* the removals, the taking of the moved children out of their source slots
\* into the holding list, the insertions, the write-back of the held
\* children into their target slots, and the compaction.  A moved child is
\* in the array neither before the first insertion nor after the last one,
\* and is written to its target slot only after the last insertion;
\* insertions and write-backs fill only slots that are empty.
C14_MovesWrittenAfterInsertions ==
    Applied =>
        /\ TheDiff.clear =>
            /\ \A j \in 1..Len(h_trace.cleared.children) :
                h_trace.cleared.children[j] = << >>
            /\ h_trace.cleared.disposed = RemovedScopes
        /\ h_trace.removed.disposed = RemovedScopes
        /\ h_trace.removed.items_to_move = << >>
        /\ h_trace.taken.disposed = RemovedScopes
        /\ h_trace.taken.built = << >>
        /\ Len(h_trace.taken.items_to_move) = Len(TheDiff.moved)
        /\ \A i \in 1..Len(TheDiff.moved) :
            /\ Holds(h_trace.removed.children, OldChild(TheDiff.moved[i].from))
            /\ ~Holds(h_trace.taken.children, OldChild(TheDiff.moved[i].from))
            /\ ~Holds(h_trace.added.children, OldChild(TheDiff.moved[i].from))
            /\ h_trace.added.children[TheDiff.moved[i].to + 1] = << >>
            /\ h_trace.written.children[TheDiff.moved[i].to + 1]
                    = <<OldChild(TheDiff.moved[i].from)>>
        /\ Len(h_trace.added.built) = Len(TheDiff.added)
        /\ \A i \in 1..Len(TheDiff.added) :
            /\ h_trace.taken.children[TheDiff.added[i].at + 1] = << >>
            /\ h_trace.added.children[TheDiff.added[i].at + 1]
                    = <<h_trace.added.built[i]>>
        /\ h_trace.written.built = h_trace.added.built
        /\ h_trace.written.disposed = RemovedScopes
        /\ h_pass.children = SelectSeq(h_trace.written.children, LAMBDA c : c # << >>)

C14_Witness ==
    /\ Applied
    /\ ~TheDiff.clear
    /\ TheDiff.removed # << >>
    /\ Len(TheDiff.moved) >= 2
    /\ TheDiff.added # << >>
    /\ Len(h_trace.taken.items_to_move) >= 2

\* C15 as stated: before any clear, removal, move or insertion the slot array
\* has been resized to old length + insertions - removals, also when the
\* diff has more removals than insertions.
C15_ResizedToNewLength ==
    Applied =>
        Len(h_trace.resized.children)
            = Len(h_from) + Len(TheDiff.added) - Len(TheDiff.removed)

\* C15 amended: before any clear, removal, move or insertion the slot array
\* is grown (by empty slots) to old length + insertions - removals when the
\* diff has at least as many insertions as removals; when it has more
\* removals than insertions the array is not resized and keeps its old
\* length through the edits.  Only the compaction at the end of the pass
\* brings it to old length + insertions - removals in that case.
C15_GrownNotShrunk ==
    Applied =>
        /\ Len(TheDiff.added) >= Len(TheDiff.removed) =>
            Len(h_trace.resized.children)
                = Len(h_from) + Len(TheDiff.added) - Len(TheDiff.removed)
        /\ Len(TheDiff.added) < Len(TheDiff.removed) =>
            /\ Len(h_trace.resized.children) = Len(h_from)
            /\ Len(h_trace.written.children) = Len(h_from)
        /\ \A i \in 1..Len(h_trace.resized.children) :
            h_trace.resized.children[i]
                = (IF i <= Len(h_from) THEN <<OldChild(i - 1)>> ELSE << >>)
        /\ h_trace.resized.disposed = << >>
        /\ ~TheDiff.clear =>
            Len(h_pass.children)
                = Len(h_from) + Len(TheDiff.added) - Len(TheDiff.removed)

C15_Witness ==
    /\ Applied
    /\ Len(TheDiff.removed) = 2
    /\ Len(TheDiff.added) = 1
    /\ Len(h_from) = 3
    /\ Len(h_trace.resized.children) = 3
    /\ Len(h_pass.children) = 2

\* C16: for every diff that diff(from, to) produces, applied to a slot array
\* arranged per from, apply_diff never panics: every remove, move-from,
\* move-to and insert index is within the length of the array when it is
\* accessed, and every move's source slot is occupied when it is taken.
C16_ApplyNeverFaults ==
    Applied =>
        /\ ~h_trace.written.panic
        /\ \A i \in 1..Len(TheDiff.removed) :
            TheDiff.removed[i].at < Len(h_trace.resized.children)
        /\ \A i \in 1..Len(TheDiff.moved) :
            /\ TheDiff.moved[i].from < Len(h_trace.removed.children)
            /\ TheDiff.moved[i].to < Len(h_trace.added.children)
            /\ h_trace.removed.children[TheDiff.moved[i].from + 1] # << >>
            /\ \A j \in 1..Len(TheDiff.moved) :
                TheDiff.moved[i].from = TheDiff.moved[j].from => i = j
        /\ \A i \in 1..Len(TheDiff.added) :
            TheDiff.added[i].at < Len(h_trace.taken.children)

C16_Witness ==
    /\ Applied
    /\ Len(TheDiff.added) > Len(TheDiff.removed)
    /\ TheDiff.removed # << >>
    /\ TheDiff.moved # << >>
    /\ ~h_pass.panic
    /\ Len(h_pass.children) = 3

\* the target indices of the insertions followed by those of the moves
WriteTargets ==
    [i \in 1..Len(TheDiff.added) |-> TheDiff.added[i].at]
        \o [i \in 1..Len(TheDiff.moved) |-> TheDiff.moved[i].to]

\* C19: neither an insertion nor the write-back of a staged move overwrites a
\* slot that still holds a child: every slot written is empty when it is
\* written, the insert targets and move targets are pairwise distinct, and
\* every child that leaves the array has had its scope released.
C19_WritesOnlyFillEmptySlots ==
    Applied =>
        /\ h_pass.leaked = << >>
        /\ IsUnique(WriteTargets)
        /\ \A i \in 1..Len(TheDiff.added) :
            h_trace.taken.children[TheDiff.added[i].at + 1] = << >>
        /\ \A i \in 1..Len(TheDiff.moved) :
            h_trace.added.children[TheDiff.moved[i].to + 1] = << >>
        /\ \A i \in 0..(Len(h_from) - 1) :
            Holds(h_pass.children, OldChild(i))
                \/ \E j \in 1..Len(h_pass.disposed) : h_pass.disposed[j] = OldChild(i).scope

C19_Witness ==
    /\ Applied
    /\ Len(TheDiff.added) = 2
    /\ TheDiff.moved # << >>
    /\ TheDiff.removed # << >>
    /\ h_pass.leaked = << >>
    /\ Len(WriteTargets) = 3

----------------------------------------------------------------------------
(* The moves of diff and the running normalized position (DiffSpec) *)

\* normalized_idx at the iteration idx of the move loop, where the loop
\* compares it: after the two cursors have been advanced
NormalizedAt(idx) ==
    removed_step(h_from, h_to,
                 added_step(h_from, h_to, move_loop(h_from, h_to, idx), idx),
                 idx).normalized_idx

\* the index in h_from of the key the iteration idx visits (a surviving key)
FromIdx(idx) == (CHOOSE i \in 1..Len(h_from) : h_from[i] = h_to[idx + 1]) - 1

\* the iterations that visit a key present in both generations
Surviving == {idx \in 0..(Len(h_to) - 1) : h_to[idx + 1] \in Range(h_from)}

\* the diff has a move-operation for the key the iteration idx visits
MovedAt(idx) ==
    \E i \in 1..Len(TheDiff.moved) :
        TheDiff.moved[i] = [from |-> FromIdx(idx), to |-> idx]

\* C17 as stated: no move-operation is emitted for a key present in both
\* generations whose index in from equals the running normalized position at
\* the iteration that visits it.
C17_NoMoveAtNormalizedPosition ==
    Diffed =>
        \A idx \in Surviving :
            FromIdx(idx) = NormalizedAt(idx) => ~MovedAt(idx)

\* C17 amended: no move-operation is emitted for a key present in both
\* generations whose index in from equals both the running normalized
\* position and its index in to; every other surviving key gets exactly one
\* move, also one whose index in from equals the normalized position but not
\* its index in to.
C17_NoMoveOnlyWhenBothCoincide ==
    Diffed =>
        /\ \A idx \in Surviving :
            MovedAt(idx) <=>
                ~(FromIdx(idx) = NormalizedAt(idx) /\ FromIdx(idx) = idx)
        /\ \A i \in 1..Len(TheDiff.moved) :
            /\ TheDiff.moved[i].to \in Surviving
            /\ TheDiff.moved[i].from = FromIdx(TheDiff.moved[i].to)
            /\ \A j \in 1..Len(TheDiff.moved) :
                TheDiff.moved[i].to = TheDiff.moved[j].to => i = j

\* C in diff([A,B,C], [A,C]): normalized position 2, index in from 2, index
\* in to 1, and a move 2 -> 1
C17_Witness ==
    /\ h_phase = "diffed"
    /\ h_from = <<"A", "B", "C">>
    /\ h_to = <<"A", "C">>
    /\ NormalizedAt(1) = 2
    /\ FromIdx(1) = 2
    /\ MovedAt(1)

\* C18: diff never emits a no-op move: a key whose index in from equals its
\* index in to gets no move-operation, i.e. every move has from # to.
C18_NoNoOpMove ==
    Diffed =>
        \A i \in 1..Len(TheDiff.moved) : TheDiff.moved[i].from # TheDiff.moved[i].to


----------------------------------------------------------------------------
(* List: clicks, key events and List::update *)

ListInit ==
    /\ StackInit
    /\ HarnessOff
    /\ list \in {ListNew(length, overflow_checks) :
                    length \in 0..MaxItems, overflow_checks \in BOOLEAN}

\* an event is taken while the List has not panicked and few updates pend
Ready ==
    /\ ~list.scroll_panic
    /\ ~list.overflow_panic
    /\ Len(list.pending) <= MaxPending

\* a click on the Item with the given index; there is one per item
Click ==
    /\ Ready
    /\ \E index \in 0..(list.length - 1) : list' = handled(list, on_click(list, index))
    /\ UNCHANGED stack_vars
    /\ UNCHANGED harness_vars

KeyHome ==
    /\ Ready
    /\ list' = handled(list, key_home(list))
    /\ UNCHANGED stack_vars
    /\ UNCHANGED harness_vars

KeyEnd ==
    /\ Ready
    /\ list' = handled(list, key_end(list))
    /\ UNCHANGED stack_vars
    /\ UNCHANGED harness_vars

KeyArrowUp ==
    /\ Ready
    /\ list' = handled(list, key_arrow_up(list))
    /\ UNCHANGED stack_vars
    /\ UNCHANGED harness_vars

KeyArrowDown ==
    /\ Ready
    /\ list' = handled(list, key_arrow_down(list))
    /\ UNCHANGED stack_vars
    /\ UNCHANGED harness_vars

\* a holder of List::selection() sets the signal, to None or to any index
SelectionSet ==
    /\ Ready
    /\ \E v \in {None} \cup {Some(i) : i \in 0..MaxItems} :
        list' = [handled(list, selection_set(list, v)) EXCEPT !.by_holder = TRUE]
    /\ UNCHANGED stack_vars
    /\ UNCHANGED harness_vars

\* List::update on the oldest pending update
ListUpdate ==
    /\ ~list.scroll_panic
    /\ ~list.overflow_panic
    /\ list.pending # << >>
    /\ list' = list_update(list)
    /\ UNCHANGED stack_vars
    /\ UNCHANGED harness_vars

ListNext ==
    Click \/ KeyHome \/ KeyEnd \/ KeyArrowUp \/ KeyArrowDown \/ SelectionSet \/ ListUpdate

ListSpec == ListInit /\ [][ListNext]_vars

\* only item clicks and key events have set the selection so far
OnlyEvents == ~list.by_holder

\* the selection and the last scroll target are None or an index below length,
\* and `length - 1` was never evaluated with length = 0
InRange ==
    /\ list.selection = << >>
        \/ (Len(list.selection) = 1 /\ list.selection[1] \in 0..(list.length - 1))
    /\ list.length = 0 => list.selection = << >>
    /\ ~list.underflow
    /\ ~list.overflow_panic
    /\ ~list.scroll_panic
    /\ list.scrolled = << >>
        \/ (Len(list.scrolled) = 1 /\ list.scrolled[1] \in 0..(list.length - 1))

\* ArrowUp at 0 and ArrowDown at length - 1 leave the selection unchanged, and
\* no event changes the selection of an empty List
EdgesLeaveSelection ==
    /\ (KeyArrowUp /\ list.selection = <<0>>) => list'.selection = <<0>>
    /\ (KeyArrowDown /\ list.selection = <<list.length - 1>>)
            => list'.selection = <<list.length - 1>>
    /\ list.length = 0 => list'.selection = << >>

\* C20: for a List built from length items, starting with no selection and
\* under any sequence of item clicks and Home/End/ArrowUp/ArrowDown key
\* events (no set through List::selection()), the selection is always None
\* or Some(i) with i < length (ArrowUp at 0 and ArrowDown at length - 1 leave
\* it unchanged, no key event changes it when length is 0, and `length - 1`
\* is never evaluated with length 0), so that the ScrollToSelected update
\* always indexes an existing child.
C20_SelectionInRange ==
    /\ [](OnlyEvents => InRange)
    /\ [][OnlyEvents' => EdgesLeaveSelection]_vars

C20_Witness ==
    /\ OnlyEvents
    /\ list.length = MaxItems
    /\ list.selection = <<MaxItems - 1>>
    /\ list.scrolled = <<MaxItems - 1>>
    /\ list.pending = << >>

====
